---- MODULE Spec2Model ----
(***************************************************************************)
(* pytest-docker-compose: the container-group lifecycle of                 *)
(* src/src/pytest_docker_compose/__init__.py.                              *)
(*                                                                         *)
(* The plugin's fixtures (docker_project, docker_containers,               *)
(* docker_network_info and the fixture made by                             *)
(* generate_scoped_containers_fixture) are the actions; the docker-compose *)
(* project (containers, images, volumes) and the test runner's position    *)
(* in the current test are the state.                                      *)
(***************************************************************************)
EXTENDS Integers, Sequences, FiniteSets, TLC

\* ------------------------------------------------------------------ bounds
MaxServices == 2   \* services a definition may declare
MaxTests    == 3   \* tests the session runs
MaxPorts    == 2   \* container ports of one instance (endpoint specification)
MaxBindings == 2   \* host bindings registered against one port
MaxLogLen   == 2   \* bytes of one instance's captured log (log specification)

\* ------------------------------------------------------- python exceptions
NoExc             == "none"
\* ContainerConflict: class ContainerAlreadyExist
ContainerConflict == "ContainerAlreadyExist"
\* ConfigNotFound: ValueError("Unable to find ...")
ConfigNotFound    == "ValueError: Unable to find docker-compose.yml"
\* NoContainersStarted: ValueError("`docker-compose` didn't launch any containers!")
NoContainersStarted == "ValueError: didn't launch any containers"
\* iterating None, or calling a function with a missing positional argument
TypeError         == "TypeError"
\* errors raised by the engine itself, passed through untouched
EngineError       == "EngineError"

\* ------------------------------------------------------ port-binding data
\* HostIp as the engine reports it: "" (all interfaces), an address, or unset.
NoneIp  == "<None>"
HostIps == {"", "0.0.0.0", NoneIp}
HostPortNumbers == {32768, 8080}
ContainerPortIds == 1 .. MaxPorts          \* 1 stands for "80/tcp", 2 for "443/tcp", ...

PortConfig == [HostIp : HostIps, HostPort : HostPortNumbers]

SeqsUpTo(S, n) == UNION {[1 .. k -> S] : k \in 0 .. n}

\* The value of one key of container.ports: a list of port configs, or None
\* (the engine reports an exposed port that is not published as null).
NoneBindings == [none |-> TRUE, items |-> <<>>]
ListBindings(items) == [none |-> FALSE, items |-> items]
BindingValues == {NoneBindings} \cup {ListBindings(s) : s \in SeqsUpTo(PortConfig, MaxBindings)}

Injective(s) == \A i, j \in DOMAIN s : i # j => s[i] # s[j]

\* container.ports: a dict, here the sequence of its items() in iteration order.
PortMaps ==
  UNION {{[i \in 1 .. k |-> [port |-> ps[i], bindings |-> bs[i]]] :
            ps \in {q \in [1 .. k -> ContainerPortIds] : Injective(q)},
            bs \in [1 .. k -> BindingValues]} : k \in 0 .. MaxPorts}

\* ------------------------------------------------------------ NetworkInfo
NetworkInfo(container_port, hostname, host_port) ==
  [container_port |-> container_port, hostname |-> hostname, host_port |-> host_port]

\* python: x or "localhost"  (None and "" are falsy)
OrLocalhost(x) == IF x = NoneIp \/ x = "" THEN "localhost" ELSE x

RECURSIVE Concat(_)
Concat(ss) == IF ss = <<>> THEN <<>> ELSE Head(ss) \o Concat(Tail(ss))

Returned(v) == [exc |-> NoExc, value |-> v]
Raised(e)   == [exc |-> e, value |-> <<>>]

\* faulty variant: the "or 'localhost'" default is dropped
create_network_info_no_default(container) ==
  IF \E i \in DOMAIN container.ports : container.ports[i].bindings.none
    THEN Raised(TypeError)
    ELSE Returned(Concat([i \in DOMAIN container.ports |->
           [j \in DOMAIN container.ports[i].bindings.items |->
              NetworkInfo(container.ports[i].port,
                          container.ports[i].bindings.items[j].HostIp,
                          container.ports[i].bindings.items[j].HostPort)]]))

\* create_network_info_for_container: the nested comprehension over
\* container.ports.items() and each port's port_configs.  Iterating a
\* port_configs of None raises TypeError out of the comprehension.
create_network_info_for_container(container) ==
  IF \E i \in DOMAIN container.ports : container.ports[i].bindings.none
    THEN Raised(TypeError)
    ELSE Returned(Concat([i \in DOMAIN container.ports |->
           [j \in DOMAIN container.ports[i].bindings.items |->
              NetworkInfo(container.ports[i].port,
                          OrLocalhost(container.ports[i].bindings.items[j].HostIp),
                          container.ports[i].bindings.items[j].HostPort)]]))


\* =================================================================
\* The lifecycle: state
\* =================================================================
VARIABLES
  fs,          \* what the file system holds at the configured path
  no_build,    \* the --docker-compose-no-build option
  definition,  \* the declared services of the definition, in the engine's order
  project,     \* the session-scoped docker_project fixture: its cached result
  running,     \* engine: the project's running containers
  images,      \* engine: services whose image exists
  volumes,     \* engine: services whose volume exists
  nextId,      \* engine: the identity the next created container gets
  fx,          \* per fixture: "inactive", or "active" between its yield and its teardown
  held,        \* per fixture: the list `containers` its generator frame holds
  snapshot,    \* the dict the scoped fixture yielded
  phase,       \* test runner: "idle", "setup" or "teardown" of the current test
  testsRun,    \* tests started so far
  body,        \* the current test's body: "notrun", "passed" or "failed"
  last,        \* the last _containers_up / _containers_down call: who made it, how it
               \* ended (exc), what the fixture raised (raised), the identities returned
               \* (ids), the identities running at the call that were not passed (others)
  report,      \* what the last _containers_down printed and called, in order
  calls,       \* how often build(), up() and down() were invoked, and docker_project ran
  logIn,       \* what logs() did for each container in the last _containers_down
  netinfo,     \* what docker_network_info returned or raised in the current test
  usedIds,     \* identities handed to tests by earlier successful cycles
  cycles,      \* per fixture: successful setups and teardowns run
  epIn,        \* endpoint specification: the container given to the resolver
  epOut        \* endpoint specification: what the resolver returned

vars == <<fs, no_build, definition, project, running, images, volumes, nextId,
          fx, held, snapshot, phase, testsRun, body, last, report, calls,
          logIn, netinfo, usedIds, cycles, epIn, epOut>>

configVars == <<fs, no_build, definition>>
engineVars == <<running, images, volumes, nextId>>
epVars     == <<epIn, epOut>>

FunctionFixture == "docker_containers"
ScopedFixture   == "scoped_containers_fixture"
Fixtures        == {FunctionFixture, ScopedFixture}

ServiceNames == 1 .. MaxServices

\* Port maps the lifecycle draws a service's ports from: one published port,
\* and one exposed port that is not published.
PublishedPorts   == <<[port |-> 1, bindings |-> ListBindings(<<[HostIp |-> "", HostPort |-> 32768]>>)]>>
UnpublishedPorts == <<[port |-> 1, bindings |-> NoneBindings]>>
ServicePortMaps  == {PublishedPorts, UnpublishedPorts}

Definitions ==
  UNION {{[i \in 1 .. k |-> [name |-> ns[i], ports |-> ps[i]]] :
            ns \in {q \in [1 .. k -> ServiceNames] : Injective(q)},
            ps \in [1 .. k -> ServicePortMaps]} : k \in 0 .. MaxServices}

\* The attribute network_info of a Container: absent until something sets it.
NoAttr       == [set |-> FALSE, value |-> <<>>]
Attr(v)      == [set |-> TRUE, value |-> v]
Container(id, name, ports) == [id |-> id, name |-> name, ports |-> ports, network_info |-> NoAttr]
NoContainer  == Container(0, 0, <<>>)
EmptyDict   == [n \in {} |-> NoContainer]
NoCall      == [op |-> "none", fixture |-> "none", exc |-> NoExc, raised |-> NoExc, ids |-> {},
                others |-> {}]

Range(s) == {s[i] : i \in DOMAIN s}
Names(s) == {s[i].name : i \in DOMAIN s}
Ids(s)   == {s[i].id : i \in DOMAIN s}

\* =================================================================
\* The engine behind Project: containers(), up(), down(), build()
\* =================================================================
\* The container of service i of the definition after an up(): the running
\* one of that name if there is one, a newly created one otherwise.
ServiceContainer(i) ==
  IF \E c \in running : c.name = definition[i].name
    THEN CHOOSE c \in running : c.name = definition[i].name
    ELSE Container(nextId + i - 1, definition[i].name, definition[i].ports)

\* What up() can do: start every declared service and return their
\* containers, or raise after having started only the first k of them.
UpOutcomes ==
  {[exc     |-> IF k = Len(definition) THEN NoExc ELSE EngineError,
    value   |-> IF k = Len(definition) THEN [i \in 1 .. k |-> ServiceContainer(i)] ELSE <<>>,
    started |-> {ServiceContainer(i) : i \in 1 .. k}] : k \in 0 .. Len(definition)}

\* down(remove_image_type, include_volumes): stops and removes the project's
\* containers; removes images unless the type is "none", volumes if asked to.
EngineDown(remove_image_type, include_volumes) ==
  /\ running' = {}
  /\ images'  = IF remove_image_type = "none" THEN images ELSE {}
  /\ volumes' = IF include_volumes THEN {} ELSE volumes
  /\ UNCHANGED nextId


\* =================================================================
\* The plugin's code
\* =================================================================
\* Path.is_dir / Path.is_file of the configured path ("cfg") and of
\* cfg / "docker-compose.yml" ("cfg/docker-compose.yml")
KindOf(path) == IF path = "cfg" THEN fs.path ELSE fs.child
is_dir(path)  == KindOf(path) = "dir"
is_file(path) == KindOf(path) = "file"

\* faulty variant: a directory is not extended by "docker-compose.yml"
docker_compose_as_given == "cfg"

\* docker_project, lines 101-104: the path whose is_file() decides
docker_compose == IF is_dir("cfg") THEN "cfg/docker-compose.yml" ELSE "cfg"

\* python any() over a list of Container objects (objects are truthy)
any(listing) == \E c \in listing : TRUE

\* faulty variant: the check for running containers is gone
containers_up_unchecked(listing, up) ==
  IF up.exc # NoExc THEN [exc |-> up.exc, value |-> <<>>, upCalled |-> TRUE]
  ELSE IF up.value = <<>>
    THEN [exc |-> NoContainersStarted, value |-> <<>>, upCalled |-> TRUE]
  ELSE [exc |-> NoExc, value |-> up.value, upCalled |-> TRUE]

\* faulty variant: an empty list from up() is returned to the caller
containers_up_allow_empty(listing, up) ==
  IF any(listing)
    THEN [exc |-> ContainerConflict, value |-> <<>>, upCalled |-> FALSE]
  ELSE [exc |-> up.exc, value |-> up.value, upCalled |-> TRUE]

\* faulty variant: only the first container of up()'s list is returned
containers_up_first_only(listing, up) ==
  IF any(listing)
    THEN [exc |-> ContainerConflict, value |-> <<>>, upCalled |-> FALSE]
  ELSE IF up.exc # NoExc
    THEN [exc |-> up.exc, value |-> <<>>, upCalled |-> TRUE]
  ELSE IF up.value = <<>>
    THEN [exc |-> NoContainersStarted, value |-> <<>>, upCalled |-> TRUE]
  ELSE [exc |-> NoExc, value |-> <<up.value[1]>>, upCalled |-> TRUE]

\* faulty variant: up() is called before the project is asked what runs
containers_up_check_after(listing, up) ==
  IF any(listing)
    THEN [exc |-> ContainerConflict, value |-> <<>>, upCalled |-> TRUE]
  ELSE IF up.exc # NoExc
    THEN [exc |-> up.exc, value |-> <<>>, upCalled |-> TRUE]
  ELSE IF up.value = <<>>
    THEN [exc |-> NoContainersStarted, value |-> <<>>, upCalled |-> TRUE]
  ELSE [exc |-> NoExc, value |-> up.value, upCalled |-> TRUE]

\* DockerComposePlugin._containers_up.  listing is what
\* docker_project.containers() returns, up what docker_project.up() does
\* if it is called.
_containers_up(listing, up) ==
  IF any(listing)
    THEN [exc |-> ContainerConflict, value |-> <<>>, upCalled |-> FALSE]
  ELSE IF up.exc # NoExc
    THEN [exc |-> up.exc, value |-> <<>>, upCalled |-> TRUE]
  ELSE IF up.value = <<>>
    THEN [exc |-> NoContainersStarted, value |-> <<>>, upCalled |-> TRUE]
  ELSE [exc |-> NoExc, value |-> up.value, upCalled |-> TRUE]

\* sorted(docker_containers, key=lambda c: c.name): a stable sort
RECURSIVE InsertByName(_, _)
InsertByName(c, s) ==
  IF s = <<>> THEN <<c>>
  ELSE IF c.name < Head(s).name THEN <<c>> \o s
  ELSE <<Head(s)>> \o InsertByName(c, Tail(s))

RECURSIVE sorted_by_name(_)
sorted_by_name(s) ==
  IF s = <<>> THEN <<>>
  ELSE InsertByName(s[Len(s)], sorted_by_name(SubSeq(s, 1, Len(s) - 1)))

\* Something printed, or the down() call; text is the printed log, in code points.
Event(ev, name) == [ev |-> ev, name |-> name, text |-> <<>>]
LogsEvent(name, text) == [ev |-> "logs", name |-> name, text |-> text]

\* What container.logs() does: it returns bytes, or the engine raises.
LogBytes(bytes) == [exc |-> NoExc, bytes |-> bytes]
LogError        == [exc |-> EngineError, bytes |-> <<>>]

\* Bytes a captured log is made of here: "a", the two bytes of U+00E9 (a
\* lead byte and a continuation byte), and 0xFF, which no UTF-8 text holds.
LogByteValues == {97, 195, 169, 255}
ReplacementChar == 65533
\* "(no logs)"
NoLogsText == <<40, 110, 111, 32, 108, 111, 103, 115, 41>>

\* bytes.decode("utf-8", errors="replace") over bytes below 0xE0 and 0xFF:
\* an ASCII byte is its own code point, a two-byte lead followed by a
\* continuation byte is one code point, anything else becomes U+FFFD and
\* decoding goes on with the next byte.
RECURSIVE DecodeReplace(_)
DecodeReplace(b) ==
  IF b = <<>> THEN <<>>
  ELSE IF Head(b) < 128 THEN <<Head(b)>> \o DecodeReplace(Tail(b))
  ELSE IF Head(b) \in 194 .. 223 /\ Len(b) >= 2 /\ b[2] \in 128 .. 191
    THEN <<(Head(b) - 192) * 64 + (b[2] - 128)>> \o DecodeReplace(Tail(Tail(b)))
  ELSE <<ReplacementChar>> \o DecodeReplace(Tail(b))

\* faulty variant: errors="strict", an undecodable byte raises
decode_strict(b) ==
  IF ReplacementChar \in {DecodeReplace(b)[i] : i \in DOMAIN DecodeReplace(b)}
    THEN Raised("UnicodeDecodeError")
    ELSE Returned(DecodeReplace(b))

\* container.logs().decode("utf-8", errors="replace"): it never raises
decode(b) == Returned(DecodeReplace(b))

\* decode(...) or "(no logs)", line 155-156
logs_text(b) ==
  LET d == decode(b)
  IN IF d.exc # NoExc THEN d
     ELSE Returned(IF d.value = <<>> THEN NoLogsText ELSE d.value)

\* The loop of _containers_down over the containers in the given order:
\* header and underline, then container.logs(), which the engine may fail.
RECURSIVE ReportLoop(_, _)
ReportLoop(s, logs) ==
  IF s = <<>> THEN [exc |-> NoExc, out |-> <<>>]
  ELSE IF logs[Head(s).id].exc # NoExc
    THEN [exc |-> logs[Head(s).id].exc, out |-> <<Event("header", Head(s).name)>>]
  ELSE IF logs_text(logs[Head(s).id].bytes).exc # NoExc
    THEN [exc |-> logs_text(logs[Head(s).id].bytes).exc,
          out |-> <<Event("header", Head(s).name)>>]
  ELSE LET rest == ReportLoop(Tail(s), logs)
       IN [exc |-> rest.exc,
           out |-> <<Event("header", Head(s).name),
                     LogsEvent(Head(s).name, logs_text(logs[Head(s).id].bytes).value)>>
                   \o rest.out]

\* faulty variant: the containers are reported in the order they were given
containers_down_unsorted(docker_containers, logs) ==
  LET rep == ReportLoop(docker_containers, logs)
  IN IF rep.exc # NoExc
       THEN [exc |-> rep.exc, out |-> rep.out, down |-> <<>>]
       ELSE [exc |-> NoExc, out |-> rep.out \o <<Event("down", 0)>>, down |-> <<"none", FALSE>>]

\* faulty variant: down() also removes the images and the volumes
containers_down_rmi(docker_containers, logs) ==
  LET rep == ReportLoop(sorted_by_name(docker_containers), logs)
  IN IF rep.exc # NoExc
       THEN [exc |-> rep.exc, out |-> rep.out, down |-> <<>>]
       ELSE [exc |-> NoExc, out |-> rep.out \o <<Event("down", 0)>>, down |-> <<"all", TRUE>>]

\* faulty variant: the containers are reported but never brought down
containers_down_no_down(docker_containers, logs) ==
  LET rep == ReportLoop(sorted_by_name(docker_containers), logs)
  IN [exc |-> rep.exc, out |-> rep.out, down |-> <<>>]

\* faulty variant: a failure of logs() ends the report, down() is called anyway
containers_down_catch(docker_containers, logs) ==
  LET rep == ReportLoop(sorted_by_name(docker_containers), logs)
  IN [exc |-> NoExc, out |-> rep.out \o <<Event("down", 0)>>, down |-> <<"none", FALSE>>]

\* DockerComposePlugin._containers_down: what it prints and calls, in
\* order, and the arguments of its down() call (<<>> if it never got there).
_containers_down(docker_containers, logs) ==
  LET rep == ReportLoop(sorted_by_name(docker_containers), logs)
  IN IF rep.exc # NoExc
       THEN [exc |-> rep.exc, out |-> rep.out, down |-> <<>>]
       ELSE [exc |-> NoExc, out |-> rep.out \o <<Event("down", 0)>>, down |-> <<"none", FALSE>>]

\* DockerComposePlugin._extract_network_info(docker_containers, docker_project):
\* the dict comprehension; a later container of the same name wins.
_extract_network_info(docker_containers, docker_project) ==
  LET infos == [i \in DOMAIN docker_containers |->
                  create_network_info_for_container(docker_containers[i])]
      lastOf(n) == CHOOSE i \in DOMAIN docker_containers :
                     /\ docker_containers[i].name = n
                     /\ \A j \in DOMAIN docker_containers :
                          docker_containers[j].name = n => j <= i
  IN IF \E i \in DOMAIN infos : infos[i].exc # NoExc
       THEN Raised(TypeError)
       ELSE Returned([n \in Names(docker_containers) |-> infos[lastOf(n)].value])

\* A python call of _extract_network_info with the positional arguments
\* args: both parameters are required.
call_extract_network_info(args) ==
  IF Len(args) # 2 THEN Raised(TypeError)
  ELSE _extract_network_info(args[1], args[2])


\* =================================================================
\* The fixtures, as the test runner drives them
\* =================================================================
FileSystems ==
  {[path |-> "file", child |-> "missing"], [path |-> "missing", child |-> "missing"]}
  \cup {[path |-> "dir", child |-> k] : k \in {"file", "dir", "missing"}}

NoProject == [state |-> "unresolved", exc |-> NoExc]
NoResult  == [set |-> FALSE, result |-> Returned(<<>>)]
NoCycles  == [acquired |-> 0, released |-> 0]
NoCalls   == [docker_project |-> 0, build |-> 0, up |-> 0, down |-> 0]
NoLogs    == [i \in {} |-> LogError]

Init ==
  /\ fs \in FileSystems
  /\ no_build \in BOOLEAN
  /\ definition \in Definitions
  /\ project = NoProject
  /\ running = {}
  /\ images = {}
  /\ volumes = {}
  /\ nextId = 1
  /\ fx = [f \in Fixtures |-> "inactive"]
  /\ held = [f \in Fixtures |-> <<>>]
  /\ snapshot = EmptyDict
  /\ phase = "idle"
  /\ testsRun = 0
  /\ body = "notrun"
  /\ last = NoCall
  /\ report = <<>>
  /\ logIn = NoLogs
  /\ calls = NoCalls
  /\ netinfo = NoResult
  /\ usedIds = {}
  /\ cycles = [f \in Fixtures |-> NoCycles]
  /\ epIn = NoContainer
  /\ epOut = NoResult

Bump(field) == [calls EXCEPT ![field] = @ + 1]

\* The runner starts the next test and sets up the fixtures it requests.
StartTest ==
  /\ phase = "idle"
  /\ testsRun < MaxTests
  /\ phase' = "setup"
  /\ testsRun' = testsRun + 1
  /\ body' = "notrun"
  /\ UNCHANGED <<configVars, engineVars, epVars, project, fx, held, snapshot,
                 last, report, logIn, calls, netinfo, usedIds, cycles>>

\* The name of a container of the project beyond the ones up() returned
\* (a service scaled up by a test).
ExtraName == 0

\* The test's body runs once its fixtures are set up, and passes or fails.
\* A test that holds the project's instances may start one more container
\* in the project on its own.
TestBody ==
  /\ phase = "setup"
  /\ \E outcome \in {"passed", "failed"} : body' = outcome
  /\ phase' = "teardown"
  /\ \E oneOff \in IF \E f \in Fixtures : fx[f] = "active" THEN BOOLEAN ELSE {FALSE} :
       IF oneOff
         THEN /\ running' = running \cup {Container(nextId, ExtraName, <<>>)}
              /\ nextId' = nextId + 1
              /\ UNCHANGED <<images, volumes>>
         ELSE UNCHANGED engineVars
  /\ UNCHANGED <<configVars, epVars, project, fx, held, snapshot,
                 testsRun, last, report, logIn, calls, netinfo, usedIds, cycles>>

\* The test is over once its function-scoped fixtures are torn down.
FinishTest ==
  /\ phase = "teardown"
  /\ fx[FunctionFixture] = "inactive"
  /\ phase' = "idle"
  /\ UNCHANGED <<configVars, engineVars, epVars, project, fx, held, snapshot,
                 testsRun, body, last, report, logIn, calls, netinfo, usedIds, cycles>>

\* faulty variant: the fixture is function-scoped, every test resolves and builds again
docker_project_per_test ==
  /\ phase = "setup"
  /\ calls.docker_project < testsRun
  /\ project.state # "error"
  /\ IF ~ is_file(docker_compose)
       THEN /\ project' = [state |-> "error", exc |-> ConfigNotFound]
            /\ calls' = Bump("docker_project")
            /\ phase' = "teardown"
            /\ UNCHANGED images
       ELSE IF no_build
         THEN /\ project' = [state |-> "resolved", exc |-> NoExc]
              /\ calls' = Bump("docker_project")
              /\ UNCHANGED <<images, phase>>
         ELSE \E built \in BOOLEAN :
              /\ calls' = [calls EXCEPT !.docker_project = @ + 1, !.build = @ + 1]
              /\ images' = IF built THEN Names(definition) ELSE images
              /\ project' = IF built THEN [state |-> "resolved", exc |-> NoExc]
                                     ELSE [state |-> "error", exc |-> EngineError]
              /\ phase' = IF built THEN phase ELSE "teardown"
  /\ UNCHANGED <<configVars, running, volumes, nextId, epVars, fx, held, snapshot,
                 testsRun, body, last, report, logIn, netinfo, usedIds, cycles>>

\* DockerComposePlugin.docker_project, session-scoped: it runs when the
\* first test requests it, and its result (or its exception) is kept.
docker_project ==
  /\ phase = "setup"
  /\ project.state = "unresolved"
  /\ IF ~ is_file(docker_compose)
       THEN /\ project' = [state |-> "error", exc |-> ConfigNotFound]
            /\ calls' = Bump("docker_project")
            /\ phase' = "teardown"
            /\ UNCHANGED images
       ELSE IF no_build
         THEN /\ project' = [state |-> "resolved", exc |-> NoExc]
              /\ calls' = Bump("docker_project")
              /\ UNCHANGED <<images, phase>>
         ELSE \E built \in BOOLEAN :
              /\ calls' = [calls EXCEPT !.docker_project = @ + 1, !.build = @ + 1]
              /\ images' = IF built THEN Names(definition) ELSE images
              /\ project' = IF built THEN [state |-> "resolved", exc |-> NoExc]
                                     ELSE [state |-> "error", exc |-> EngineError]
              /\ phase' = IF built THEN phase ELSE "teardown"
  /\ UNCHANGED <<configVars, running, volumes, nextId, epVars, fx, held, snapshot,
                 testsRun, body, last, report, logIn, netinfo, usedIds, cycles>>

\* What an up() that was called leaves in the engine.
EngineUp(up) ==
  /\ running' = running \cup up.started
  /\ images'  = images \cup {c.name : c \in up.started}
  /\ volumes' = volumes \cup {c.name : c \in up.started}
  /\ nextId'  = nextId + Len(definition)

\* faulty variant: the fixture does not depend on docker_project
docker_containers_setup_no_project ==
  /\ phase = "setup"
  /\ fx[FunctionFixture] = "inactive"
  /\ \E up \in UpOutcomes :
       LET r == _containers_up(running, up)
       IN /\ IF r.upCalled THEN EngineUp(up) ELSE UNCHANGED engineVars
          /\ calls' = IF r.upCalled THEN Bump("up") ELSE calls
          /\ last' = [op |-> "acquire", fixture |-> FunctionFixture, exc |-> r.exc,
                      raised |-> r.exc, ids |-> Ids(r.value), others |-> {}]
          /\ usedIds' = usedIds \cup Ids(r.value)
          /\ IF r.exc = NoExc
               THEN /\ fx' = [fx EXCEPT ![FunctionFixture] = "active"]
                    /\ held' = [held EXCEPT ![FunctionFixture] = r.value]
                    /\ cycles' = [cycles EXCEPT ![FunctionFixture].acquired = @ + 1]
                    /\ UNCHANGED phase
               ELSE /\ phase' = "teardown"
                    /\ UNCHANGED <<fx, held, cycles>>
  /\ UNCHANGED <<configVars, epVars, project, snapshot, testsRun, body, report, logIn, netinfo>>

\* docker_containers up to its yield (line 79-81)
docker_containers_setup ==
  /\ phase = "setup"
  /\ project.state = "resolved"
  /\ fx[FunctionFixture] = "inactive"
  /\ \E up \in UpOutcomes :
       LET r == _containers_up(running, up)
       IN /\ IF r.upCalled THEN EngineUp(up) ELSE UNCHANGED engineVars
          /\ calls' = IF r.upCalled THEN Bump("up") ELSE calls
          /\ last' = [op |-> "acquire", fixture |-> FunctionFixture, exc |-> r.exc,
                      raised |-> r.exc, ids |-> Ids(r.value), others |-> {}]
          /\ usedIds' = usedIds \cup Ids(r.value)
          /\ IF r.exc = NoExc
               THEN /\ fx' = [fx EXCEPT ![FunctionFixture] = "active"]
                    /\ held' = [held EXCEPT ![FunctionFixture] = r.value]
                    /\ cycles' = [cycles EXCEPT ![FunctionFixture].acquired = @ + 1]
                    /\ UNCHANGED phase
               ELSE /\ phase' = "teardown"
                    /\ UNCHANGED <<fx, held, cycles>>
  /\ UNCHANGED <<configVars, epVars, project, snapshot, testsRun, body, report, logIn, netinfo>>


\* The loop of lines 190-191 over the list: every container gets its
\* network_info, unless create_network_info_for_container raises.
AttachNetworkInfo(containers) ==
  LET infos == [i \in DOMAIN containers |-> create_network_info_for_container(containers[i])]
  IN IF \E i \in DOMAIN infos : infos[i].exc # NoExc
       THEN Raised(TypeError)
       ELSE Returned([i \in DOMAIN containers |->
                        [containers[i] EXCEPT !.network_info = Attr(infos[i].value)]])

\* {container.name: container for container in containers}, line 192
ByName(containers) ==
  [n \in Names(containers) |->
     containers[CHOOSE i \in DOMAIN containers :
                  /\ containers[i].name = n
                  /\ \A j \in DOMAIN containers : containers[j].name = n => j <= i]]

\* scoped_containers_fixture up to its yield (lines 189-192)
scoped_containers_fixture_setup ==
  /\ phase = "setup"
  /\ project.state = "resolved"
  /\ fx[ScopedFixture] = "inactive"
  /\ \E up \in UpOutcomes :
       LET r == _containers_up(running, up)
           a == IF r.exc = NoExc THEN AttachNetworkInfo(r.value) ELSE Raised(r.exc)
       IN /\ IF r.upCalled THEN EngineUp(up) ELSE UNCHANGED engineVars
          /\ calls' = IF r.upCalled THEN Bump("up") ELSE calls
          /\ last' = [op |-> "acquire", fixture |-> ScopedFixture, exc |-> r.exc,
                      raised |-> a.exc, ids |-> Ids(r.value), others |-> {}]
          /\ usedIds' = usedIds \cup Ids(r.value)
          /\ IF a.exc = NoExc
               THEN /\ fx' = [fx EXCEPT ![ScopedFixture] = "active"]
                    /\ held' = [held EXCEPT ![ScopedFixture] = a.value]
                    /\ snapshot' = ByName(a.value)
                    /\ cycles' = [cycles EXCEPT ![ScopedFixture].acquired = @ + 1]
                    /\ UNCHANGED phase
               ELSE /\ phase' = "teardown"
                    /\ UNCHANGED <<fx, held, snapshot, cycles>>
  /\ UNCHANGED <<configVars, epVars, project, testsRun, body, report, logIn, netinfo>>

\* DockerComposePlugin.docker_network_info: it depends on docker_containers
\* and passes that one value on.
docker_network_info ==
  /\ phase = "setup"
  /\ fx[FunctionFixture] = "active"
  /\ ~ netinfo.set
  /\ LET r == call_extract_network_info(<<held[FunctionFixture]>>)
     IN /\ netinfo' = [set |-> TRUE, result |-> r]
        /\ phase' = IF r.exc = NoExc THEN phase ELSE "teardown"
  /\ UNCHANGED <<configVars, engineVars, epVars, project, fx, held, snapshot,
                 testsRun, body, last, report, logIn, calls, usedIds, cycles>>

\* What logs() does in the session: it returns a text, or the engine raises.
LogOutcomes == {LogBytes(<<97>>), LogError}

\* The part of a fixture after its yield: _containers_down on the list the
\* generator frame holds, with logs() doing one of outcomes per container.
ReleaseLogs(f, outcomes) ==
  /\ fx[f] = "active"
  /\ \E logs \in [Ids(held[f]) -> outcomes] :
       LET r == _containers_down(held[f], logs)
       IN /\ report' = r.out
          /\ logIn' = logs
          /\ last' = [op |-> "release", fixture |-> f, exc |-> r.exc,
                      raised |-> r.exc, ids |-> {},
                      others |-> {c.id : c \in running} \ Ids(held[f])]
          /\ IF r.down # <<>>
               THEN EngineDown(r.down[1], r.down[2]) /\ calls' = Bump("down")
               ELSE UNCHANGED <<engineVars, calls>>
  /\ fx' = [fx EXCEPT ![f] = "inactive"]
  /\ held' = [held EXCEPT ![f] = <<>>]
  /\ cycles' = [cycles EXCEPT ![f].released = @ + 1]
  /\ snapshot' = IF f = ScopedFixture THEN EmptyDict ELSE snapshot
  /\ netinfo' = IF f = FunctionFixture THEN NoResult ELSE netinfo
  /\ UNCHANGED <<configVars, epVars, project, phase, testsRun, body, usedIds>>

\* The runner resumes the generator when the fixture's scope ends, whatever
\* the outcome of the test.
Release(f) == ReleaseLogs(f, LogOutcomes)

\* faulty variant: the teardown is plain code after the test, skipped when the test failed
docker_containers_teardown_if_passed ==
  /\ phase = "teardown"
  /\ IF body = "failed"
       THEN /\ fx[FunctionFixture] = "active"
            /\ fx' = [fx EXCEPT ![FunctionFixture] = "inactive"]
            /\ held' = [held EXCEPT ![FunctionFixture] = <<>>]
            /\ netinfo' = NoResult
            /\ UNCHANGED <<configVars, engineVars, epVars, project, phase, testsRun, body,
                           usedIds, snapshot, cycles, calls, last, report, logIn>>
       ELSE Release(FunctionFixture)

\* docker_containers after its yield (line 83), at the end of its test
docker_containers_teardown ==
  /\ phase = "teardown"
  /\ Release(FunctionFixture)

\* scoped_containers_fixture after its yield (line 193), at the end of its
\* scope: with the current test, or after any later one.
scoped_containers_fixture_teardown ==
  /\ phase \in {"teardown", "idle"}
  /\ Release(ScopedFixture)

Next ==
  \/ StartTest
  \/ docker_project
  \/ docker_containers_setup
  \/ scoped_containers_fixture_setup
  \/ docker_network_info
  \/ TestBody
  \/ docker_containers_teardown
  \/ scoped_containers_fixture_teardown
  \/ FinishTest

Spec == Init /\ [][Next]_vars

\* =================================================================
\* The endpoint resolver on its own: any port map, one call
\* =================================================================
InitEndpoints ==
  /\ epIn \in {Container(1, 1, pm) : pm \in PortMaps}
  /\ epOut = NoResult
  /\ fs = [path |-> "file", child |-> "missing"]
  /\ no_build = FALSE
  /\ definition = <<>>
  /\ project = NoProject
  /\ running = {} /\ images = {} /\ volumes = {} /\ nextId = 1
  /\ fx = [f \in Fixtures |-> "inactive"]
  /\ held = [f \in Fixtures |-> <<>>]
  /\ snapshot = EmptyDict
  /\ phase = "idle" /\ testsRun = 0 /\ body = "notrun"
  /\ last = NoCall /\ report = <<>> /\ logIn = NoLogs /\ calls = NoCalls
  /\ netinfo = NoResult /\ usedIds = {}
  /\ cycles = [f \in Fixtures |-> NoCycles]

resolveEndpoints ==
  /\ ~ epOut.set
  /\ epOut' = [set |-> TRUE, result |-> create_network_info_for_container(epIn)]
  /\ UNCHANGED <<configVars, engineVars, project, fx, held, snapshot, phase, testsRun,
                 body, last, report, logIn, calls, netinfo, usedIds, cycles, epIn>>

NextEndpoints == resolveEndpoints

SpecEndpoints == InitEndpoints /\ [][NextEndpoints]_vars

\* =================================================================
\* _containers_down on its own: any instance list, any log payloads
\* =================================================================
\* Every payload of at most MaxLogLen bytes, and the engine's failure
AllLogOutcomes == {LogBytes(b) : b \in SeqsUpTo(LogByteValues, MaxLogLen)} \cup {LogError}

\* The lists up() can have returned: the services in any order.
InstanceLists ==
  {[i \in DOMAIN d |-> Container(i, d[i].name, d[i].ports)] :
     d \in {e \in Definitions : e # <<>> /\ \A i \in DOMAIN e : e[i].ports = PublishedPorts}}

\* The state docker_containers is in when its test is over: the project is
\* built, its services are up, the fixture holds them.
InitLogs ==
  /\ \E cs \in InstanceLists :
       /\ definition = [i \in DOMAIN cs |-> [name |-> cs[i].name, ports |-> cs[i].ports]]
       /\ running = Range(cs)
       /\ images = Names(cs) /\ volumes = Names(cs)
       /\ nextId = Len(cs) + 1
       /\ held = [f \in Fixtures |-> IF f = FunctionFixture THEN cs ELSE <<>>]
       /\ usedIds = Ids(cs)
       /\ last = [op |-> "acquire", fixture |-> FunctionFixture, exc |-> NoExc,
                  raised |-> NoExc, ids |-> Ids(cs), others |-> {}]
  /\ fs = [path |-> "file", child |-> "missing"]
  /\ no_build = FALSE
  /\ project = [state |-> "resolved", exc |-> NoExc]
  /\ fx = [f \in Fixtures |-> IF f = FunctionFixture THEN "active" ELSE "inactive"]
  /\ snapshot = EmptyDict
  /\ phase = "teardown" /\ testsRun = 1 /\ body \in {"passed", "failed"}
  /\ report = <<>> /\ logIn = NoLogs
  /\ calls = [docker_project |-> 1, build |-> 1, up |-> 1, down |-> 0]
  /\ netinfo = NoResult
  /\ cycles = [f \in Fixtures |->
                IF f = FunctionFixture THEN [acquired |-> 1, released |-> 0] ELSE NoCycles]
  /\ epIn = NoContainer /\ epOut = NoResult

\* docker_containers after its yield, with any payloads
docker_containers_teardown_logs ==
  /\ phase = "teardown"
  /\ ReleaseLogs(FunctionFixture, AllLogOutcomes)

NextLogs == docker_containers_teardown_logs \/ FinishTest

SpecLogs == InitLogs /\ [][NextLogs]_vars


\* =================================================================
\* Properties
\* =================================================================
\* A step in which fixture f runs its setup (Acquire), its teardown (Release)
AnyAcquireStep == docker_containers_setup \/ scoped_containers_fixture_setup
ReleaseStep(f) == fx[f] = "active" /\ fx'[f] = "inactive"
AnyReleaseStep == \E f \in Fixtures : ReleaseStep(f)

\* C1: an Acquire made while the project reports a running instance ends in
\* ContainerConflict without calling up(): the engine is left as it was, no
\* identity is handed out, and the fixture does not become active (the
\* request is rejected, the test goes to its teardown).
C1_ConflictRejected ==
  [][(AnyAcquireStep /\ running # {}) =>
        /\ last'.exc = ContainerConflict
        /\ last'.raised = ContainerConflict
        /\ calls'.up = calls.up
        /\ UNCHANGED engineVars
        /\ fx' = fx
        /\ phase' = "teardown"]_vars

\* C1 witness: a scoped Acquire was rejected while the per-test fixture of
\* the same test holds its instances
C1_Witness ==
  /\ last.op = "acquire" /\ last.fixture = ScopedFixture
  /\ last.exc = ContainerConflict
  /\ fx[FunctionFixture] = "active"
  /\ running # {}

\* C2: every successful Acquire is followed by exactly one Release of the
\* same fixture: the teardowns run equal the setups that succeeded, less the
\* one still open; the per-test fixture is released before its test is over,
\* whether the body passed, failed or never ran; and the session cannot come
\* to its end with a fixture still open.
C2_ReleaseAfterAcquire ==
  /\ \A f \in Fixtures :
       cycles[f].released + (IF fx[f] = "active" THEN 1 ELSE 0) = cycles[f].acquired
  /\ phase = "idle" => fx[FunctionFixture] = "inactive"
  /\ ~ ENABLED Next => \A f \in Fixtures : fx[f] = "inactive"

\* C2 witness: the test body failed and the per-test fixture was released
C2_Witness ==
  /\ body = "failed"
  /\ last.op = "release" /\ last.fixture = FunctionFixture
  /\ cycles[FunctionFixture].released = 1
  /\ cycles[ScopedFixture].released = 1

LogsAt(r)    == {i \in DOMAIN r : r[i].ev = "logs"}
DownAt(r)    == {i \in DOMAIN r : r[i].ev = "down"}

\* C3: a Release reports no instance twice and reports in ascending order
\* of name; down() is called at most once, after everything printed; a
\* Release that completes has reported every instance it was given, once.
C3_ReportThenDown ==
  [][\A f \in Fixtures : ReleaseStep(f) =>
        /\ \A i, j \in LogsAt(report') : i < j => report'[i].name < report'[j].name
        /\ \A i \in LogsAt(report') : report'[i].name \in Names(held[f])
        /\ \A d \in DownAt(report') : d = Len(report')
        /\ last'.exc = NoExc =>
             /\ \A c \in Range(held[f]) :
                  Cardinality({i \in LogsAt(report') : report'[i].name = c.name}) = 1
             /\ Cardinality(LogsAt(report')) = Len(held[f])
             /\ DownAt(report') = {Len(report')}
             /\ calls'.down = calls.down + 1
        /\ last'.exc # NoExc => DownAt(report') = {} /\ calls'.down = calls.down]_vars

\* C3 witness: a completed Release of two instances that up() had returned
\* in descending order of name
C3_Witness ==
  /\ last.op = "release" /\ last.exc = NoExc
  /\ Len(definition) = 2 /\ definition[1].name > definition[2].name
  /\ Cardinality(LogsAt(report)) = 2
  /\ report[Len(report)].ev = "down"

C5_NoContainersStarted ==
  /\ (last.op = "acquire" /\ definition = <<>>) =>
        last.exc = NoContainersStarted /\ last.raised = NoContainersStarted
  /\ \A f \in Fixtures : fx[f] = "active" => held[f] # <<>>
  /\ fx[ScopedFixture] = "active" => DOMAIN snapshot # {}

\* C5 witness: up() was called and Acquire raised NoContainersStarted
C5_Witness ==
  /\ last.op = "acquire" /\ last.exc = NoContainersStarted
  /\ calls.up > 0
  /\ running = {}


\* C6: once the per-test instance set is acquired, the per-test endpoint
\* mapping is returned, keyed by exactly the names of the acquired instances,
\* each mapped to what the resolver yields for that instance.
C6_EndpointMapping ==
  netinfo.set =>
    /\ netinfo.result.exc = NoExc
    /\ DOMAIN netinfo.result.value = Names(held[FunctionFixture])
    /\ \A c \in Range(held[FunctionFixture]) :
         netinfo.result.value[c.name] = create_network_info_for_container(c).value

\* The host bindings registered against item i of a port map: none when the
\* engine reports no list for it.
BindingsOf(ports, i) ==
  IF ports[i].bindings.none THEN <<>> ELSE ports[i].bindings.items

RECURSIVE BindingsBefore(_, _)
BindingsBefore(ports, i) ==
  IF i <= 1 THEN 0 ELSE BindingsBefore(ports, i - 1) + Len(BindingsOf(ports, i - 1))

\* C7: the resolver returns one EndpointInfo for every pair of a container
\* port and a host binding registered against it, and nothing else, with the
\* port, the binding's host port and its address ("localhost" when that is
\* empty or unset); an instance without ports or without bindings yields
\* the empty sequence.
C7_ResolveEndpoints ==
  epOut.set =>
    LET ports == epIn.ports
        out   == epOut.result.value
    IN /\ epOut.result.exc = NoExc
       /\ Len(out) = BindingsBefore(ports, Len(ports) + 1)
       /\ \A i \in DOMAIN ports : \A j \in DOMAIN BindingsOf(ports, i) :
            LET b == BindingsOf(ports, i)[j]
                e == out[BindingsBefore(ports, i) + j]
            IN /\ e.container_port = ports[i].port
               /\ e.host_port = b.HostPort
               /\ e.hostname = (IF b.HostIp \in {"", NoneIp} THEN "localhost" ELSE b.HostIp)

\* "the configured path is a definition file or a directory containing one"
Located == fs.path = "file" \/ (fs.path = "dir" /\ fs.child = "file")

\* C8: when the path is neither a definition file nor a directory holding
\* one, Initialize fails with ConfigNotFound and build() and up() are never
\* invoked in the session; otherwise, once Initialize has run, build() has
\* been invoked exactly if the skip-build option is absent.
C8_Initialize ==
  /\ ~ Located => calls.build = 0 /\ calls.up = 0 /\ project.state # "resolved"
  /\ project.state # "unresolved" =>
       IF ~ Located
         THEN project.state = "error" /\ project.exc = ConfigNotFound
         ELSE /\ project.exc # ConfigNotFound
              /\ calls.build = (IF no_build THEN 0 ELSE 1)

\* C8 witness: the path is a directory without a definition file, Initialize
\* failed with ConfigNotFound and the session has run to its end
C8_Witness ==
  /\ fs.path = "dir" /\ fs.child # "file"
  /\ project.exc = ConfigNotFound
  /\ testsRun = MaxTests /\ phase = "idle"

\* C9: in one session docker_project runs at most once and build() at most
\* once; once up() has been invoked build() is not invoked any more; and no
\* Acquire or Release step invokes build().
C9_OneBuild ==
  /\ [](calls.docker_project <= 1 /\ calls.build <= 1)
  /\ [](calls.up > 0 => project.state = "resolved")
  /\ [][calls.up > 0 => calls'.build = calls.build]_vars
  /\ [][(AnyAcquireStep \/ AnyReleaseStep) =>
          calls'.build = calls.build /\ calls'.docker_project = calls.docker_project]_vars

\* C9 witness: both fixtures have completed cycles on the one build
C9_Witness ==
  /\ calls.build = 1 /\ calls.docker_project = 1
  /\ cycles[FunctionFixture].released >= 1
  /\ cycles[ScopedFixture].released >= 1
  /\ calls.up >= 3

\* C10: a Release leaves the built images and the volumes as they were.
C10_ImagesAndVolumesKept ==
  [][AnyReleaseStep => images' = images /\ volumes' = volumes]_vars

\* C10 witness: a Release called down() while images and volumes existed
C10_Witness ==
  /\ last.op = "release" /\ last.exc = NoExc
  /\ calls.down > 0
  /\ images = Names(definition) /\ images # {}
  /\ volumes # {}
  /\ running = {}


Ascii(x) == x < 128
HasReplacement(text) == \E i \in DOMAIN text : text[i] = ReplacementChar

\* What the report of a payload has to be: the placeholder for an empty
\* payload; otherwise a text that is not empty, keeps the ASCII bytes in
\* their order, holds U+FFFD where a byte cannot be part of UTF-8 text, and
\* is the payload itself when that is all ASCII.
ReportedAs(bytes, text) ==
  /\ bytes = <<>> => text = NoLogsText
  /\ bytes # <<>> =>
       /\ text # <<>>
       /\ SelectSeq(text, Ascii) = SelectSeq(bytes, Ascii)
       /\ (\E i \in DOMAIN bytes : bytes[i] = 255) => HasReplacement(text)
       /\ (\A i \in DOMAIN bytes : Ascii(bytes[i])) => text = bytes
       /\ bytes = <<195, 169>> => text = <<233>>

\* C11: when logs() returns a payload for every instance, whatever the
\* payloads are, Release raises nothing, reports every instance it was given
\* once (U+FFFD text for undecodable bytes, the placeholder for an empty
\* log) and calls down(), which leaves nothing running.
C11_BadPayloadsReported ==
  [][(ReleaseStep(FunctionFixture) /\ \A id \in DOMAIN logIn' : logIn'[id].exc = NoExc) =>
        /\ last'.exc = NoExc
        /\ \A c \in Range(held[FunctionFixture]) :
             /\ Cardinality({i \in LogsAt(report') : report'[i].name = c.name}) = 1
             /\ \A i \in LogsAt(report') : report'[i].name = c.name =>
                  ReportedAs(logIn'[c.id].bytes, report'[i].text)
        /\ DownAt(report') = {Len(report')}
        /\ calls'.down = calls.down + 1
        /\ running' = {}]_vars

\* C11 witness: the first instance reported had an undecodable payload, a
\* later one an empty log, and down() was called after both
C11_Witness ==
  /\ last.op = "release" /\ last.exc = NoExc
  /\ \E i, j \in LogsAt(report) :
       /\ i < j
       /\ HasReplacement(report[i].text)
       /\ report[j].text = NoLogsText
  /\ report[Len(report)].ev = "down"
  /\ running = {}


DeclaredNames == {definition[i].name : i \in DOMAIN definition}

\* C12: the instance set a successful Acquire returned has one entry per
\* declared service, with pairwise distinct names that are exactly the
\* declared names; the scoped fixture's snapshot has exactly those keys.
C12_OneInstancePerService ==
  /\ \A f \in Fixtures : fx[f] = "active" =>
       /\ Len(held[f]) = Len(definition)
       /\ \A i, j \in DOMAIN held[f] : i # j => held[f][i].name # held[f][j].name
       /\ Names(held[f]) = DeclaredNames
  /\ fx[ScopedFixture] = "active" =>
       /\ DOMAIN snapshot = DeclaredNames
       /\ Cardinality(DOMAIN snapshot) = Len(definition)

\* C12 witness: both kinds of fixture have held the instances of a
\* definition of two services, the scoped one holds them now
C12_Witness ==
  /\ Len(definition) = 2
  /\ fx[ScopedFixture] = "active"
  /\ Cardinality(DOMAIN snapshot) = 2
  /\ cycles[FunctionFixture].released >= 1

\* What the endpoint list of a port map whose bindings are all lists has to
\* be: one entry per (port, binding) pair, with the port, the binding's host
\* port, and its address or "localhost".
EndpointsOf(ports, out) ==
  /\ Len(out) = BindingsBefore(ports, Len(ports) + 1)
  /\ \A i \in DOMAIN ports : \A j \in DOMAIN BindingsOf(ports, i) :
       out[BindingsBefore(ports, i) + j] =
         [container_port |-> ports[i].port,
          hostname |-> IF BindingsOf(ports, i)[j].HostIp \in {"", NoneIp}
                         THEN "localhost" ELSE BindingsOf(ports, i)[j].HostIp,
          host_port |-> BindingsOf(ports, i)[j].HostPort]

\* C13: what the scoped fixture yielded maps every instance's name to that
\* instance, one of those up() returned for this cycle, and every one of
\* them carries its endpoint list as network_info.
C13_ScopedSnapshot ==
  fx[ScopedFixture] = "active" =>
    /\ DOMAIN snapshot = Names(held[ScopedFixture])
    /\ \A n \in DOMAIN snapshot :
         /\ snapshot[n].name = n
         /\ snapshot[n] \in Range(held[ScopedFixture])
         /\ snapshot[n].id \in usedIds
         /\ \E c \in running : c.id = snapshot[n].id /\ c.ports = snapshot[n].ports
    /\ \A c \in Range(held[ScopedFixture]) :
         /\ c.network_info.set
         /\ EndpointsOf(c.ports, c.network_info.value)

\* C13 witness: the snapshot holds two instances with one endpoint each
C13_Witness ==
  /\ fx[ScopedFixture] = "active"
  /\ Cardinality(DOMAIN snapshot) = 2
  /\ \A n \in DOMAIN snapshot : Len(snapshot[n].network_info.value) = 1

\* C14: an Acquire that ends in ContainerConflict has called neither up()
\* nor down() and leaves the engine (running instances, images, volumes) as
\* it found it; the fixtures' state does not change, the test goes straight
\* to its teardown with its body not run, and until that test is over no
\* Acquire is made again and the body does not run.
C14_ConflictNotResolved ==
  /\ [][(AnyAcquireStep /\ last'.exc = ContainerConflict) =>
          /\ running # {} /\ running' = running
          /\ UNCHANGED <<images, volumes, nextId>>
          /\ calls' = calls
          /\ report' = report
          /\ fx' = fx /\ held' = held
          /\ last'.raised = ContainerConflict
          /\ phase' = "teardown"
          /\ body' = "notrun"]_vars
  /\ [][phase = "teardown" =>
          /\ ~ AnyAcquireStep
          /\ calls'.up = calls.up
          /\ body' = body]_vars

\* C14 witness: the test whose Acquire was rejected is over, its body never
\* ran, and the instances of the scope that was in the way still run
C14_Witness ==
  /\ last.op = "acquire" /\ last.exc = ContainerConflict
  /\ phase = "idle" /\ body = "notrun"
  /\ fx[ScopedFixture] = "active"
  /\ Ids(held[ScopedFixture]) \subseteq {c.id : c \in running}
  /\ calls.up = 1 /\ calls.down = 0

\* C15: an Acquire that the plugin itself makes fail (ContainerConflict,
\* NoContainersStarted, or a failure while the scoped fixture attaches the
\* endpoints) leaves no instance that it started: what runs afterwards is
\* what ran before, so the Release that is skipped has nothing to tear down.
C15_FailedAcquireLeavesNothing ==
  [][(AnyAcquireStep /\ last'.raised # NoExc /\ last'.exc # EngineError) =>
        /\ running' = running
        /\ fx' = fx]_vars

\* What C16 asks of every step: up() is called only by an Acquire on a
\* resolved project; down() only by the Release of a fixture whose Acquire
\* succeeded, once; after a Release that completed, the engine, the
\* fixtures and the call counts change only by a new Acquire.
LifecycleStep ==
  /\ (calls'.up # calls.up) =>
       (/\ AnyAcquireStep
        /\ project.state = "resolved"
        /\ calls'.up = calls.up + 1)
  /\ (calls'.down # calls.down) =>
       (/\ \E f \in Fixtures :
             ReleaseStep(f) /\ cycles[f].acquired = cycles[f].released + 1
        /\ calls'.down = calls.down + 1
        /\ calls.up > calls.down)
  /\ (/\ last.op = "release" /\ last.exc = NoExc
      /\ <<running, calls, fx, held, last>>' # <<running, calls, fx, held, last>>) =>
       (/\ AnyAcquireStep
        /\ last'.op = "acquire")

\* C16: the lifecycle is Idle, Built, Up, Down.  up() is called only on a
\* project that Initialize has resolved; down() is called only by the
\* Release of a fixture whose Acquire succeeded, once per Release, and a
\* fixture is released at most once per Acquire; after a Release that
\* completed, the only transition is a new Acquire.
C16_Lifecycle ==
  /\ [](/\ calls.up > 0 => (project.state = "resolved" /\ calls.docker_project = 1)
        /\ calls.down <= cycles[FunctionFixture].released + cycles[ScopedFixture].released
        /\ \A f \in Fixtures :
             cycles[f].acquired - cycles[f].released = IF fx[f] = "active" THEN 1 ELSE 0)
  /\ [][LifecycleStep]_vars

\* C16 witness: two full cycles, Built, Up, Down, Up, Down
C16_Witness ==
  /\ project.state = "resolved"
  /\ calls.up = 2 /\ calls.down = 2
  /\ last.op = "release" /\ last.exc = NoExc
  /\ cycles[FunctionFixture].released = 1 /\ cycles[ScopedFixture].released = 1

\* C17: at most one fixture holds acquired instances at any time, whatever
\* the order in which the per-test and the scoped fixture are requested: an
\* Acquire succeeds only while no fixture is active, and a Release is made
\* while the other fixture is inactive, so the instances it brings down are
\* not another scope's.
C17_OneHolder ==
  /\ [](~ (fx[FunctionFixture] = "active" /\ fx[ScopedFixture] = "active"))
  /\ [][(AnyAcquireStep /\ last'.exc = NoExc) =>
          (/\ \A f \in Fixtures : fx[f] = "inactive" /\ held[f] = <<>>
           /\ running = {})]_vars
  /\ [][\A f \in Fixtures :
          ReleaseStep(f) =>
            (\A g \in Fixtures \ {f} :
               /\ fx[g] = "inactive" /\ held[g] = <<>>
               /\ Ids(held[g]) \cap ({c.id : c \in running} \ {c.id : c \in running'}) = {})]_vars

\* C17 witness: the scoped fixture holds the project over several tests,
\* a test's per-test Acquire was rejected in between, and the scoped
\* instances still run
C17_Witness ==
  /\ fx[ScopedFixture] = "active" /\ fx[FunctionFixture] = "inactive"
  /\ last.op = "acquire" /\ last.fixture = FunctionFixture /\ last.exc = ContainerConflict
  /\ testsRun >= 2
  /\ cycles[FunctionFixture].released >= 1
  /\ Ids(held[ScopedFixture]) \subseteq {c.id : c \in running}

FailingIn(cs, logs) == {c \in Range(cs) : logs[c.id].exc # NoExc}

\* C19: when the engine fails a logs() call during a Release, the error
\* leaves the Release as it is: the containers that sort before the first
\* failing one are reported, the failing one and those after it are not,
\* down() is not called, the engine is left as it was with the instances
\* running, and the Acquire that follows ends in ContainerConflict.
C19_LogErrorPropagates ==
  /\ [][\A f \in Fixtures :
          (ReleaseStep(f) /\ FailingIn(held[f], logIn') # {}) =>
            (/\ last'.exc = EngineError /\ last'.raised = EngineError
             /\ \A c \in Range(held[f]) :
                  (\E i \in LogsAt(report') : report'[i].name = c.name)
                    <=> (\A b \in FailingIn(held[f], logIn') : c.name < b.name)
             /\ DownAt(report') = {}
             /\ calls' = calls
             /\ UNCHANGED engineVars
             /\ Ids(held[f]) \subseteq {c.id : c \in running'})]_vars
  /\ [][(AnyAcquireStep /\ last.op = "release" /\ last.exc = EngineError) =>
          (/\ last'.exc = ContainerConflict
           /\ calls'.up = calls.up
           /\ running' = running)]_vars

\* C19 witness: the logs() of the first of two containers failed in the only
\* Release made so far, nothing was reported or brought down, and the next
\* Acquire was rejected
C19_Witness ==
  /\ last.op = "acquire" /\ last.exc = ContainerConflict
  /\ \A f \in Fixtures : fx[f] = "inactive"
  /\ cycles[FunctionFixture].released + cycles[ScopedFixture].released = 1
  /\ calls.up = 1 /\ calls.down = 0
  /\ Cardinality(DOMAIN logIn) = 2
  /\ \E id \in DOMAIN logIn : logIn[id].exc = EngineError
  /\ \E id \in DOMAIN logIn : logIn[id].exc = NoExc
  /\ LogsAt(report) = {}
  /\ Cardinality(running) >= 2

====
